---------------------------- MODULE Spec2Model ----------------------------
(***************************************************************************)
(* Model of src/script.py: the resilient fetcher (safe_get), the fill-only *)
(* merge engine (merge_dict_fill_only, merge_list_by_key,                  *)
(* merge_list_by_fingerprint, merge_course, upsert_course), the record     *)
(* normaliser (fetch_course_details) and the run that polls, merges and    *)
(* saves master_courses.json.                                              *)
(*                                                                         *)
(* JSON values are tagged records: Null, S(string), N(int), L(sequence),   *)
(* D(function from key strings to values).  Python mutates dictionaries    *)
(* and lists in place; here every helper returns the mutated value.        *)
(***************************************************************************)
EXTENDS Integers, Sequences, FiniteSets, TLC

(***************************************************************************)
(* JSON values                                                             *)
(***************************************************************************)
Null == [t |-> "null"]
S(s) == [t |-> "str", s |-> s]
N(n) == [t |-> "int", n |-> n]
L(q) == [t |-> "list", q |-> q]
D(f) == [t |-> "dict", d |-> f]

EmptyList == L(<<>>)
EmptyDict == D(<<>>)

IsDict(x) == x.t = "dict"
IsList(x) == x.t = "list"
IsScalar(x) == x.t \in {"null", "str", "int"}

\* dict.get(k) and dict.get(k, default)
GetD(x, k, default) == IF k \in DOMAIN x.d THEN x.d[k] ELSE default
Get(x, k) == GetD(x, k, Null)

\* d[k] = x
Put(x, k, y) == D([kk \in DOMAIN x.d \cup {k} |-> IF kk = k THEN y ELSE x.d[kk]])

\* Python truthiness of a JSON value
Truthy(x) ==
    CASE x.t = "null" -> FALSE
      [] x.t = "str"  -> x.s # ""
      [] x.t = "int"  -> x.n # 0
      [] x.t = "list" -> x.q # <<>>
      [] x.t = "dict" -> DOMAIN x.d # {}

\* a or b
Or(a, b) == IF Truthy(a) THEN a ELSE b

\* str(x): a string is itself, an integer its decimal digits; containers
\* and None print as text no identifier of the model equals.
str(x) ==
    CASE x.t = "str"  -> x.s
      [] x.t = "int"  -> ToString(x.n)
      [] x.t = "null" -> "None"
      [] x.t = "list" -> "[..]"
      [] x.t = "dict" -> "{..}"

\* The membership test dropped: every unkeyed incoming item is appended.
InListDropped(item, q) == FALSE

\* item in list (membership by equality)
InList(item, q) == \E i \in 1..Len(q) : q[i] = item

\* len(x) of a list, a dict or a string
PyLen(x) ==
    CASE x.t = "list" -> Len(x.q)
      [] x.t = "dict" -> Cardinality(DOMAIN x.d)
      [] x.t = "str"  -> Len(x.s)
      [] OTHER        -> 0

Max(set) == CHOOSE m \in set : \A y \in set : y <= m

\* ensure_list
ensure_list(x) ==
    IF IsList(x) THEN x
    ELSE IF IsDict(x) THEN L(<<x>>)
    ELSE EmptyList

(***************************************************************************)
(* Merge helpers                                                           *)
(***************************************************************************)
is_blank(x) == x = Null \/ x = S("") \/ x = EmptyList \/ x = EmptyDict

\* The test of the existing value dropped: a non-blank incoming value is
\* always stored.
merge_scalar_overwrite(existing_dict, k, new_val) ==
    IF ~is_blank(new_val) THEN Put(existing_dict, k, new_val) ELSE existing_dict

merge_scalar_fill_only(existing_dict, k, new_val) ==
    IF is_blank(Get(existing_dict, k)) /\ ~is_blank(new_val)
    THEN Put(existing_dict, k, new_val)
    ELSE existing_dict

\* One iteration of the loop of merge_dict_fill_only, for key k with value v.
RECURSIVE merge_dict_fill_only(_, _)
MergeItem(existing, k, v) ==
    IF IsDict(v) THEN
        Put(existing, k,
            merge_dict_fill_only(
                IF IsDict(Get(existing, k)) THEN Get(existing, k) ELSE EmptyDict, v))
    ELSE IF IsList(v) THEN
        IF IsList(Get(existing, k)) THEN existing ELSE Put(existing, k, EmptyList)
    ELSE merge_scalar_fill_only(existing, k, v)

RECURSIVE MergeItems(_, _, _)
MergeItems(existing, items, ks) ==
    IF ks = {} THEN existing
    ELSE LET k == CHOOSE x \in ks : TRUE
         IN MergeItems(MergeItem(existing, k, items[k]), items, ks \ {k})

\* (new or {}).items(): a falsy new has no items.
merge_dict_fill_only(existing, new) ==
    IF IsDict(new) THEN MergeItems(existing, new.d, DOMAIN new.d) ELSE existing

\* item_id in (None, "")
BlankId(x) == x = Null \/ x = S("")

\* The index built over the existing list: str(id) -> position, a later
\* entry with the same str(id) replacing an earlier one.
KeyIndex(q, key) ==
    LET keyed == {i \in 1..Len(q) : IsDict(q[i]) /\ ~BlankId(Get(q[i], key))}
        sids  == {str(Get(q[i], key)) : i \in keyed}
    IN [s \in sids |-> Max({i \in keyed : str(Get(q[i], key)) = s})]

IndexPut(index, sid, pos) ==
    [s \in DOMAIN index \cup {sid} |-> IF s = sid THEN pos ELSE index[s]]

RECURSIVE MergeByKeyLoop(_, _, _, _, _)
MergeByKeyLoop(q, index, new, i, key) ==
    IF i > Len(new) THEN q
    ELSE LET item == new[i] IN
        IF ~IsDict(item) \/ BlankId(Get(item, key)) THEN
            MergeByKeyLoop(IF InList(item, q) THEN q ELSE Append(q, item),
                           index, new, i + 1, key)
        ELSE LET sid == str(Get(item, key)) IN
            IF sid \in DOMAIN index THEN
                MergeByKeyLoop(
                    [q EXCEPT ![index[sid]] = merge_dict_fill_only(@, item)],
                    index, new, i + 1, key)
            ELSE
                MergeByKeyLoop(Append(q, item), IndexPut(index, sid, Len(q) + 1),
                               new, i + 1, key)

merge_list_by_key(existing_list, new_list, key) ==
    LET q == IF IsList(existing_list) THEN existing_list.q ELSE <<>>
    IN IF ~IsList(new_list) THEN L(q)
       ELSE L(MergeByKeyLoop(q, KeyIndex(q, key), new_list.q, 1, key))


\* body[:60]
BodyCut == 60
Cut(text) == IF Len(text) <= BodyCut THEN text ELSE SubSeq(text, 1, BodyCut)

IdentityFields == <<"id", "notice_id", "_id", "update_id", "uid">>

\* A fingerprint is a string; the last-resort one ("json:" followed by the
\* canonical serialisation of the item) is kept as the item itself, which
\* equals another's exactly when the two serialisations are equal.
TextFp(text) == [fp |-> "text", text |-> text]
JsonFp(item) == [fp |-> "json", item |-> item]

fingerprint(item) ==
    IF ~IsDict(item) THEN TextFp(str(item))
    ELSE LET found == {i \in 1..Len(IdentityFields) :
                          ~is_blank(Get(item, IdentityFields[i]))}
         IN IF found # {}
            THEN LET k == IdentityFields[CHOOSE i \in found : \A j \in found : i <= j]
                 IN TextFp(k \o ":" \o str(Get(item, k)))
            ELSE LET title == Or(Get(item, "title"), Or(Get(item, "heading"),
                                 Or(Get(item, "name"), S("")))) 
                     body  == Or(Get(item, "message"), Or(Get(item, "description"),
                                 Or(Get(item, "content"), S(""))))
                     ts    == Or(Get(item, "created_at"), Or(Get(item, "createdAt"),
                                 Or(Get(item, "published_at"), Or(Get(item, "publishedAt"),
                                 Or(Get(item, "date"), Or(Get(item, "time"), S("")))))))
                 IN IF Truthy(ts) \/ Truthy(title)
                    THEN TextFp("ts:" \o str(ts) \o "|t:" \o str(title)
                                \o "|b:" \o Cut(str(body)))
                    ELSE JsonFp(item)

\* {fingerprint(item): i for i, item in enumerate(existing_list)}
FpIndex(q) ==
    LET fps == {fingerprint(q[i]) : i \in 1..Len(q)}
    IN [f \in fps |-> Max({i \in 1..Len(q) : fingerprint(q[i]) = f})]

RECURSIVE MergeByFpLoop(_, _, _, _)
MergeByFpLoop(q, idx, new, i) ==
    IF i > Len(new) THEN q
    ELSE LET item == new[i]
             fp   == fingerprint(item)
         IN IF fp \in DOMAIN idx THEN
                MergeByFpLoop(
                    IF IsDict(q[idx[fp]]) /\ IsDict(item)
                    THEN [q EXCEPT ![idx[fp]] = merge_dict_fill_only(@, item)]
                    ELSE q,
                    idx, new, i + 1)
            ELSE MergeByFpLoop(Append(q, item), IndexPut(idx, fp, Len(q) + 1),
                               new, i + 1)

merge_list_by_fingerprint(existing_list, new_list) ==
    LET q == IF IsList(existing_list) THEN existing_list.q ELSE <<>>
    IN IF ~IsList(new_list) THEN L(q)
       ELSE L(MergeByFpLoop(q, FpIndex(q), new_list.q, 1))

\* The matched lesson without the recount of lines 267-268.
MergeLessonIntoStale(target, lesson) ==
    LET t1 == merge_dict_fill_only(target, lesson)
    IN Put(t1, "videos",
           merge_list_by_key(GetD(t1, "videos", EmptyList),
                             GetD(lesson, "videos", EmptyList), "id"))

\* The lesson a matched incoming lesson is merged into (lines 260-268).
MergeLessonInto(target, lesson) ==
    LET t1 == merge_dict_fill_only(target, lesson)
        t2 == Put(t1, "videos",
                  merge_list_by_key(GetD(t1, "videos", EmptyList),
                                    GetD(lesson, "videos", EmptyList), "id"))
    IN IF IsList(Get(t2, "videos"))
       THEN Put(t2, "lesson_count", N(Len(Get(t2, "videos").q)))
       ELSE t2

\* The lesson appended when no existing lesson matches (lines 270-272).
NewLesson(lesson) ==
    IF IsList(Get(lesson, "videos"))
    THEN Put(lesson, "lesson_count", N(Len(Get(lesson, "videos").q)))
    ELSE lesson

RECURSIVE MergeLessonsLoop(_, _, _, _)
MergeLessonsLoop(q, lesson_idx, new, i) ==
    IF i > Len(new) THEN q
    ELSE LET lesson == new[i] IN
        IF ~IsDict(lesson) \/ BlankId(Get(lesson, "lesson_id")) THEN
            MergeLessonsLoop(IF InList(lesson, q) THEN q ELSE Append(q, lesson),
                             lesson_idx, new, i + 1)
        ELSE LET lid == str(Get(lesson, "lesson_id")) IN
            IF lid \in DOMAIN lesson_idx THEN
                MergeLessonsLoop(
                    [q EXCEPT ![lesson_idx[lid]] = MergeLessonInto(@, lesson)],
                    lesson_idx, new, i + 1)
            ELSE
                MergeLessonsLoop(Append(q, NewLesson(lesson)),
                                 IndexPut(lesson_idx, lid, Len(q) + 1), new, i + 1)

RECURSIVE SumVideos(_)
SumVideos(q) ==
    IF q = <<>> THEN 0
    ELSE (IF IsDict(Head(q)) THEN PyLen(GetD(Head(q), "videos", EmptyList)) ELSE 0)
         + SumVideos(Tail(q))

merge_course(existing_course, new_course) ==
    LET c0 == merge_dict_fill_only(existing_course, new_course)
        c1 == Put(c0, "classroom",
                  merge_list_by_key(GetD(c0, "classroom", EmptyList),
                                    GetD(new_course, "classroom", EmptyList), "id"))
        c2 == Put(c1, "live_classes",
                  merge_list_by_key(GetD(c1, "live_classes", EmptyList),
                                    GetD(new_course, "live_classes", EmptyList), "id"))
        c3 == Put(c2, "announcements",
                  merge_list_by_fingerprint(GetD(c2, "announcements", EmptyList),
                                            GetD(new_course, "announcements", EmptyList)))
        existing_lessons == IF IsList(GetD(c3, "lessons", EmptyList))
                            THEN GetD(c3, "lessons", EmptyList).q ELSE <<>>
        new_lessons == IF IsList(GetD(new_course, "lessons", EmptyList))
                       THEN GetD(new_course, "lessons", EmptyList).q ELSE <<>>
        merged == MergeLessonsLoop(existing_lessons,
                                   KeyIndex(existing_lessons, "lesson_id"),
                                   new_lessons, 1)
        c4 == Put(c3, "lessons", L(merged))
    IN Put(c4, "lesson_count", N(SumVideos(merged)))

\* The scan for a record of this course_id dropped: every incoming record
\* is appended.
upsert_courseAppendOnly(master, course_id, new_course) == Append(master, new_course)

\* The comparison with course_id dropped: the first record of the
\* collection is merged into.
upsert_courseAnyRecord(master, course_id, new_course) ==
    IF master # <<>> THEN [master EXCEPT ![1] = merge_course(@, new_course)]
    ELSE Append(master, new_course)

\* upsert_course: the first record with this course_id is merged into, or
\* the incoming record is appended as it is.
upsert_course(master, course_id, new_course) ==
    LET hits == {i \in 1..Len(master) : Get(master[i], "course_id") = course_id}
    IN IF hits # {}
       THEN LET i == CHOOSE h \in hits : \A j \in hits : h <= j
            IN [master EXCEPT ![i] = merge_course(@, new_course)]
       ELSE Append(master, new_course)

(***************************************************************************)
(* Normaliser: fetch_course_details                                        *)
(*                                                                         *)
(* api holds what safe_get returns for each URL of one course during one   *)
(* poll: api.classroom, api.today, api.updates, and the tables api.lesson  *)
(* and api.video from the identifier printed in the URL to the response.   *)
(* A URL without an entry answers as a failed fetch does, with [].         *)
(***************************************************************************)
ApiGet(table, ident) ==
    IF str(ident) \in DOMAIN table THEN table[str(ident)] ELSE EmptyList

\* str(x) if x is not None else None
StrOrNone(x) == IF x = Null THEN Null ELSE S(str(x))

\* lines 363-377: one entry of a lesson's videos
VideoEntry(v, api) ==
    LET vid == Get(v, "id")
        got == IF Truthy(vid) THEN ApiGet(api.video, vid) ELSE EmptyDict
        vd  == IF IsDict(got) THEN got ELSE EmptyDict
    IN D([id           |-> StrOrNone(vid),
          name         |-> GetD(v, "name", S("")),
          published_at |-> GetD(v, "published_at", S("")),
          thumb        |-> GetD(v, "thumb", S("")),
          type         |-> GetD(v, "type", S("")),
          pdfs         |-> Or(GetD(v, "pdfs", EmptyList), EmptyList),
          m3u          |-> Or(GetD(vd, "video_url", S("")), S("")),
          yt           |-> Or(GetD(vd, "hd_video_url", S("")), S(""))])

\* for v in (l.get("videos") or []): a list is walked; a string or a dict
\* yields only non-dict elements, which are skipped.
VideoStubs(l) ==
    LET vs == Or(Get(l, "videos"), EmptyList)
    IN IF IsList(vs) THEN SelectSeq(vs.q, IsDict) ELSE <<>>

\* Iterating a number raises TypeError out of fetch_course_details.
RaisesOnVideos(l) == Or(Get(l, "videos"), EmptyList).t = "int"

\* lines 379-385: one entry of out["lessons"]
LessonEntry(l, api) ==
    LET stubs  == VideoStubs(l)
        videos == [i \in 1..Len(stubs) |-> VideoEntry(stubs[i], api)]
    IN D([lesson_id    |-> StrOrNone(Get(l, "id")),
          lesson_name  |-> GetD(l, "name", S("")),
          lesson_count |-> N(Len(videos)),
          videos       |-> L(videos),
          notes        |-> Or(GetD(l, "notes", EmptyList), EmptyList)])

\* The lessons fetched for one classroom entry (lines 346-354).
GroupLessons(cls, api) ==
    IF ~IsDict(cls) \/ ~Truthy(Get(cls, "id")) THEN <<>>
    ELSE SelectSeq(ensure_list(ApiGet(api.lesson, Get(cls, "id"))).q, IsDict)

RECURSIVE AllLessons(_, _)
AllLessons(classroom, api) ==
    IF classroom = <<>> THEN <<>>
    ELSE GroupLessons(Head(classroom), api) \o AllLessons(Tail(classroom), api)

FetchRaises(course, api) ==
    LET ls == AllLessons(ensure_list(api.classroom).q, api)
    IN \E i \in 1..Len(ls) : RaisesOnVideos(ls[i])

fetch_course_details(course, rank, now, api) ==
    LET cid       == Get(course, "id")
        classroom == ensure_list(api.classroom)
        ls        == AllLessons(classroom.q, api)
    IN D([ranking       |-> N(rank),
          course_id     |-> StrOrNone(cid),
          course_name   |-> GetD(course, "title", S("")),
          image_large   |-> Get(course, "image_large"),
          image_thumb   |-> Get(course, "image_thumb"),
          classroom     |-> classroom,
          lessons       |-> L([i \in 1..Len(ls) |-> LessonEntry(ls[i], api)]),
          live_classes  |-> ensure_list(api.today),
          announcements |-> ensure_list(api.updates),
          lesson_count  |-> N(0),
          fetched_at    |-> S(now)])

(***************************************************************************)
(* Inputs of a run: the matched courses and what the upstream API answers  *)
(***************************************************************************)
MaxRuns == 2

\* The largest THREADS a run is configured with.
MaxThreads == 2

Course1 == D([id |-> N(1), title |-> S("Math 10"),
              image_large |-> S("m.png"), image_thumb |-> Null])
Course2 == D([id |-> S("2"), title |-> S("Physics 10"),
              image_large |-> Null, image_thumb |-> Null])

\* filtered_courses of one run (never empty: line 318 stops the run).
FilteredPool == {<<Course1>>, <<Course1, Course2>>, <<Course1, Course1>>}

\* Every sub-fetch of the course failed.
ApiDown ==
    [classroom |-> EmptyList, lesson |-> <<>>, video |-> <<>>,
     today |-> EmptyList, updates |-> EmptyList]

\* One classroom, one lesson with one video whose details resolve.
ApiFirst ==
    [classroom |-> L(<<D([id |-> S("a"), info |-> S("x"), tags |-> L(<<S("t")>>)])>>),
     lesson    |-> ("a" :> L(<<D([id |-> N(1), name |-> S(""),
                                  videos |-> L(<<D([id |-> S("v1"), name |-> S("")])>>),
                                  notes |-> L(<<S("n1")>>)])>>)),
     video     |-> ("v1" :> D([video_url |-> S("old.m3u8")])),
     today     |-> EmptyList,
     updates   |-> L(<<D([notice_id |-> S("77"), body |-> S("first"), extra |-> S("")])>>)]

\* The same classroom and lesson later: fields of another shape, a second
\* video, a live class, and two announcements with one notice_id.
ApiLater ==
    [classroom |-> L(<<D([id |-> S("a"), info |-> EmptyList, tags |-> EmptyDict])>>),
     lesson    |-> ("a" :> L(<<D([id |-> N(1), name |-> S("Intro"),
                                  videos |-> L(<<D([id |-> S("v1"), name |-> S("Lecture 1")]),
                                                 D([id |-> S("v2"), name |-> S("Lecture 2")])>>),
                                  notes |-> L(<<S("n2")>>)])>>)),
     video     |-> ("v1" :> D([video_url |-> S("new.m3u8"), hd_video_url |-> S("yt1")])),
     today     |-> D([id |-> N(7), topic |-> S("live")]),
     updates   |-> L(<<D([notice_id |-> S("77"), body |-> S("second"), extra |-> S("e")]),
                       D([notice_id |-> S("77"), body |-> S("third"), extra |-> S("")])>>)]

\* Two lessons with three videos and one video.
ApiTwoLessons ==
    [classroom |-> L(<<D([id |-> S("a")])>>),
     lesson    |-> ("a" :> L(<<D([id |-> N(1), name |-> S("Intro"),
                                  videos |-> L(<<D([id |-> S("v1")]), D([id |-> S("v2")]),
                                                 D([id |-> S("v3")])>>)]),
                               D([id |-> N(2), name |-> S("Limits"),
                                  videos |-> L(<<D([id |-> S("v4")])>>)])>>)),
     video     |-> <<>>,
     today     |-> EmptyList,
     updates   |-> EmptyList]

\* A lesson whose videos field is a number.
ApiBroken ==
    [classroom |-> L(<<D([id |-> S("b")])>>),
     lesson    |-> ("b" :> L(<<D([id |-> N(9), videos |-> N(3)])>>)),
     video     |-> <<>>,
     today     |-> EmptyList,
     updates   |-> EmptyList]

ApiSmall ==
    [classroom |-> L(<<D([id |-> S("b")])>>),
     lesson    |-> ("b" :> L(<<D([id |-> N(9), name |-> S("Waves"),
                                  videos |-> L(<<D([id |-> S("w1")])>>)])>>)),
     video     |-> ("w1" :> D([video_url |-> S("w.m3u8")])),
     today     |-> EmptyList,
     updates   |-> EmptyList]

\* A record of course 1 as an earlier run saved it: one lesson the later
\* fetches match, one they never mention.
StoredCourse ==
    D([ranking       |-> N(4),
       course_id     |-> S("1"),
       course_name   |-> S("Math 10"),
       image_large   |-> S(""),
       image_thumb   |-> Null,
       classroom     |-> L(<<D([id |-> S("a"), info |-> S("x")])>>),
       lessons       |-> L(<<D([lesson_id |-> S("1"), lesson_name |-> S(""),
                                lesson_count |-> N(1),
                                videos |-> L(<<D([id |-> S("v0"), name |-> S("Welcome"),
                                                  m3u |-> S(""), yt |-> S("")])>>),
                                notes |-> EmptyList]),
                             D([lesson_id |-> S("7"), lesson_name |-> S("Archive"),
                                lesson_count |-> N(0), videos |-> EmptyList,
                                notes |-> EmptyList])>>),
       live_classes  |-> EmptyList,
       announcements |-> L(<<D([notice_id |-> S("77"), body |-> S("zero")])>>),
       lesson_count  |-> N(1),
       fetched_at    |-> S("T0")])

\* master_courses.json before the first run: absent, or saved earlier.
FilePool == {Null, L(<<StoredCourse>>)}

ApiPool(course) ==
    IF course = Course1 THEN {ApiDown, ApiFirst, ApiLater, ApiTwoLessons}
    ELSE {ApiSmall, ApiBroken}

(***************************************************************************)
(* State                                                                   *)
(***************************************************************************)
VARIABLES
    file,             \* master_courses.json: Null while it does not exist
    master_json,      \* the in-memory master collection
    filtered_courses, \* the courses matched in this run
    futures,          \* per submitted task: "pending", "running", "done" or "failed"
    results,          \* the records collected from the workers
    pc,               \* "idle", "fetch" (pool running), "merge"
    pos,              \* position of the merge loop in results
    runs,             \* runs started so far
    THREADS,          \* max_workers of the pool of this run
    io,               \* what this run did to the master collection, in order
    \* one call of safe_get
    MAX_RETRIES,      \* the configured number of attempts
    attempt,          \* the loop variable of safe_get
    gpc,              \* "idle", "loop" or "returned"
    outcomes,         \* what each attempt made so far ended in
    slept,            \* the backoff sleeps taken, in tenths of a second
    get_result,       \* the value returned
    \* one keyed list merge applied once and again
    existing_list,    \* the list merged into
    incoming,         \* the item merged in
    list_key,         \* the identity field
    once,             \* the list after one merge
    twice,            \* the list after a second merge of the same item
    lpc               \* "idle", "start", "once" or "twice"

runVars == <<file, master_json, filtered_courses, futures, results, pc, pos, runs,
             THREADS, io>>
getVars == <<MAX_RETRIES, attempt, gpc, outcomes, slept, get_result>>
listVars == <<existing_list, incoming, list_key, once, twice, lpc>>

vars == <<runVars, getVars, listVars>>

\* The value of get_result before safe_get has returned.
NoResult == [t |-> "unset"]

GetIdle ==
    /\ MAX_RETRIES = 0
    /\ attempt = 1
    /\ gpc = "idle"
    /\ outcomes = <<>>
    /\ slept = <<>>
    /\ get_result = NoResult

ListIdle ==
    /\ existing_list = Null
    /\ incoming = Null
    /\ list_key = "id"
    /\ once = Null
    /\ twice = Null
    /\ lpc = "idle"

\* load_master_json: the list in the file, or [] (no file, or not a list)
load_master_json(f) == IF IsList(f) THEN f.q ELSE <<>>

\* datetime.now(timezone.utc).isoformat() during run number n
Now(n) == "T" \o ToString(n)

\* No run started.
NoRun ==
    /\ master_json = <<>>
    /\ filtered_courses = <<>>
    /\ futures = <<>>
    /\ results = <<>>
    /\ pc = "idle"
    /\ pos = 1
    /\ runs = 0
    /\ THREADS = 1
    /\ io = <<>>

InitRun == file \in FilePool /\ NoRun

RunIdle == file = Null /\ NoRun

\* STEP 1 and lines 396-403: the run matches courses, loads the master
\* collection and submits one task per course.
StartRun ==
    /\ pc = "idle"
    /\ runs < MaxRuns
    /\ \E fc \in FilteredPool :
        /\ filtered_courses' = fc
        /\ futures' = [i \in 1..Len(fc) |-> "pending"]
    /\ THREADS' \in 1..MaxThreads
    /\ master_json' = load_master_json(file)
    /\ io' = <<"load">>
    /\ results' = <<>>
    /\ pos' = 1
    /\ runs' = runs + 1
    /\ pc' = "fetch"
    /\ UNCHANGED <<file, getVars, listVars>>

\* The tasks some worker thread of the pool is executing.
Running == {i \in 1..Len(futures) : futures[i] = "running"}

\* A free worker thread takes the next task of the pool's queue (tasks are
\* queued in submission order; at most THREADS run at a time).
WorkerStart(i) ==
    /\ pc = "fetch"
    /\ futures[i] = "pending"
    /\ \A j \in 1..(i - 1) : futures[j] # "pending"
    /\ Cardinality(Running) < THREADS
    /\ futures' = [futures EXCEPT ![i] = "running"]
    /\ UNCHANGED <<file, master_json, filtered_courses, results, pc, pos, runs,
                   THREADS, io, getVars, listVars>>

\* The exception of a task not caught: it leaves the script before the
\* merge loop and the save.
WorkerDoneUncaught(i) ==
    /\ pc = "fetch"
    /\ futures[i] = "running"
    /\ \E api \in ApiPool(filtered_courses[i]) :
        IF FetchRaises(filtered_courses[i], api)
        THEN /\ futures' = [futures EXCEPT ![i] = "failed"]
             /\ pc' = "crashed"
             /\ UNCHANGED results
        ELSE /\ futures' = [futures EXCEPT ![i] = "done"]
             /\ results' = Append(results,
                    fetch_course_details(filtered_courses[i], i, Now(runs), api))
             /\ UNCHANGED pc
    /\ UNCHANGED <<file, master_json, filtered_courses, pos, runs, THREADS, io,
                   getVars, listVars>>

\* The task upserts its own record from its worker thread.
WorkerDoneMerging(i) ==
    /\ pc = "fetch"
    /\ futures[i] = "running"
    /\ \E api \in ApiPool(filtered_courses[i]) :
        IF FetchRaises(filtered_courses[i], api)
        THEN /\ futures' = [futures EXCEPT ![i] = "failed"]
             /\ UNCHANGED <<results, master_json, io>>
        ELSE LET r == fetch_course_details(filtered_courses[i], i, Now(runs), api)
             IN /\ futures' = [futures EXCEPT ![i] = "done"]
                /\ results' = Append(results, r)
                /\ master_json' = upsert_course(master_json, Get(r, "course_id"), r)
                /\ io' = Append(io, "upsert")
    /\ UNCHANGED <<file, filtered_courses, pc, pos, runs, THREADS, getVars, listVars>>

\* lines 404-408: a task completes; its record is appended to results in
\* completion order, or its exception is reported and the task dropped.
WorkerDone(i) ==
    /\ pc = "fetch"
    /\ futures[i] = "running"
    /\ \E api \in ApiPool(filtered_courses[i]) :
        IF FetchRaises(filtered_courses[i], api)
        THEN /\ futures' = [futures EXCEPT ![i] = "failed"]
             /\ UNCHANGED results
        ELSE /\ futures' = [futures EXCEPT ![i] = "done"]
             /\ results' = Append(results,
                    fetch_course_details(filtered_courses[i], i, Now(runs), api))
    /\ UNCHANGED <<file, master_json, filtered_courses, pc, pos, runs, THREADS, io,
                   getVars, listVars>>

\* The pool is left once every task has completed.
PoolExit ==
    /\ pc = "fetch"
    /\ \A i \in 1..Len(futures) : futures[i] \in {"done", "failed"}
    /\ pc' = "merge"
    /\ UNCHANGED <<file, master_json, filtered_courses, futures, results, pos, runs,
                   THREADS, io, getVars, listVars>>

\* lines 410-413: one iteration of the merge loop.  (An appended record is
\* the object held in results; later merges into it do not show in the
\* results kept here, which the loop does not read again.)
MergeStep ==
    /\ pc = "merge"
    /\ pos <= Len(results)
    /\ LET r   == results[pos]
           cid == Get(r, "course_id")
       IN /\ master_json' = IF Truthy(cid) THEN upsert_course(master_json, cid, r)
                            ELSE master_json
          /\ io' = IF Truthy(cid) THEN Append(io, "upsert") ELSE io
    /\ pos' = pos + 1
    /\ UNCHANGED <<file, filtered_courses, futures, results, pc, runs, THREADS,
                   getVars, listVars>>

\* line 418: save_master_json
Save ==
    /\ pc = "merge"
    /\ pos > Len(results)
    /\ file' = L(master_json)
    /\ io' = Append(io, "save")
    /\ pc' = "idle"
    /\ UNCHANGED <<master_json, filtered_courses, futures, results, pos, runs, THREADS,
                   getVars, listVars>>

Init == InitRun /\ GetIdle /\ ListIdle

Next ==
    \/ StartRun
    \/ \E i \in 1..Len(futures) : WorkerStart(i)
    \/ \E i \in 1..Len(futures) : WorkerDone(i)
    \/ PoolExit
    \/ MergeStep
    \/ Save

Spec == Init /\ [][Next]_vars

\* The steps of the pool and the save that ends the run.
PoolSteps ==
    \/ \E i \in 1..Len(futures) : WorkerStart(i)
    \/ \E i \in 1..Len(futures) : WorkerDone(i)
    \/ PoolExit
    \/ Save

\* The loop of lines 410-413 moves on to its next record (a MergeStep is
\* the only step that does).
LoopAdvances == pc = "merge" /\ pos <= Len(results) /\ pos' = pos + 1

\* A started run keeps taking steps: every request ends (REQUEST_TIMEOUT),
\* safe_get makes at most MAX_RETRIES attempts with finite sleeps, the pool
\* runs every submitted task, the coordinator only waits for the pool, and
\* an upsert is a terminating computation.
SpecLive == Init /\ [][Next]_vars /\ WF_vars(PoolSteps) /\ WF_pos(LoopAdvances)

(***************************************************************************)
(* Resilient fetcher: one call of safe_get(url)                            *)
(*                                                                         *)
(* Each action is one iteration of the loop "for attempt in range(1,       *)
(* MAX_RETRIES + 1)": the jitter sleep, the request, the classification of *)
(* its outcome and either the backoff sleep and "continue" or the return.  *)
(***************************************************************************)
MaxRetriesCfg == 3

\* BACKOFF_BASE and BACKOFF_CAP, in tenths of a second
BACKOFF_BASE == 8
BACKOFF_CAP == 100

\* The status codes the upstream answers with.
StatusCodes == {200, 201, 404, 500, 501, 502, 503, 504}

\* What r.json() gives for the bodies that parse.
JsonBodies == {EmptyList, L(<<D([id |-> N(1)])>>), D([video_url |-> S("u.m3u8")])}

\* A body r.json() raises on, and the absence of a response.
NotJson == [t |-> "notjson"]
NoResponse == [t |-> "noresponse"]

\* The bodies the upstream answers with.
Bodies == JsonBodies \cup {NotJson}

\* Every 2xx status taken as success.
OkAny2xx(code) == code \in 200..299

\* not (code != 200)
Ok(code) == code = 200

\* Every 5xx status taken as retryable.
RetryableStatusAny5xx(code) == code >= 500

\* code in (500, 502, 503, 504)
RetryableStatus(code) == code \in {500, 502, 503, 504}

Min(a, b) == IF a <= b THEN a ELSE b

\* min(BACKOFF_CAP, BACKOFF_BASE * 2 ** (attempt - 1)); random.uniform(0, 0.3)
\* adds u tenths.
Wait(n, u) == Min(BACKOFF_CAP, BACKOFF_BASE * 2 ^ (n - 1)) + u

GetStart ==
    /\ MAX_RETRIES \in 0..MaxRetriesCfg
    /\ attempt = 1
    /\ gpc = "loop"
    /\ outcomes = <<>>
    /\ slept = <<>>
    /\ get_result = NoResult

\* The last attempt taken as one more to retry.
AttemptsRemainOffByOne == attempt <= MAX_RETRIES

\* attempt < MAX_RETRIES
AttemptsRemain == attempt < MAX_RETRIES

InLoop == gpc = "loop" /\ attempt <= MAX_RETRIES

\* lines 71-77 and 92-98: a retryable outcome sleeps and continues while
\* attempts remain, and gives up with [] on the last attempt.
RetryOrGiveUp ==
    IF AttemptsRemain
    THEN /\ \E u \in 0..2 : slept' = Append(slept, Wait(attempt, u))
         /\ attempt' = attempt + 1
         /\ UNCHANGED <<gpc, get_result>>
    ELSE /\ get_result' = EmptyList
         /\ gpc' = "returned"
         /\ UNCHANGED <<attempt, slept>>

\* requests.RequestException (connection failure, timeout)
GetNetworkError ==
    /\ InLoop
    /\ outcomes' = Append(outcomes, [kind |-> "neterr", code |-> 0, body |-> NoResponse])
    /\ RetryOrGiveUp
    /\ UNCHANGED <<MAX_RETRIES, runVars, listVars>>

\* lines 70-77 (the body of such an answer is not read)
GetServerError(code) ==
    /\ InLoop
    /\ RetryableStatus(code)
    /\ outcomes' = Append(outcomes, [kind |-> "status", code |-> code, body |-> NotJson])
    /\ RetryOrGiveUp
    /\ UNCHANGED <<MAX_RETRIES, runVars, listVars>>

\* lines 80-82: any other status than 200, whatever its body
GetOtherStatus(code, body) ==
    /\ InLoop
    /\ ~RetryableStatus(code)
    /\ ~Ok(code)
    /\ outcomes' = Append(outcomes, [kind |-> "status", code |-> code, body |-> body])
    /\ get_result' = EmptyList
    /\ gpc' = "returned"
    /\ UNCHANGED <<MAX_RETRIES, attempt, slept, runVars, listVars>>

\* lines 85-86: status 200 and a body that parses
GetParsed(code, value) ==
    /\ InLoop
    /\ ~RetryableStatus(code)
    /\ Ok(code)
    /\ outcomes' = Append(outcomes, [kind |-> "parsed", code |-> code, body |-> value])
    /\ get_result' = value
    /\ gpc' = "returned"
    /\ UNCHANGED <<MAX_RETRIES, attempt, slept, runVars, listVars>>

\* lines 87-89: status 200 and a body that is not JSON
GetUnparsable(code) ==
    /\ InLoop
    /\ ~RetryableStatus(code)
    /\ Ok(code)
    /\ outcomes' = Append(outcomes, [kind |-> "unparsable", code |-> code, body |-> NotJson])
    /\ get_result' = EmptyList
    /\ gpc' = "returned"
    /\ UNCHANGED <<MAX_RETRIES, attempt, slept, runVars, listVars>>

\* The loop ends without a return statement having run: the function
\* returns None.
GetFallThrough ==
    /\ gpc = "loop"
    /\ attempt > MAX_RETRIES
    /\ get_result' = Null
    /\ gpc' = "returned"
    /\ UNCHANGED <<MAX_RETRIES, attempt, outcomes, slept, runVars, listVars>>

NextGet ==
    \/ GetNetworkError
    \/ \E code \in StatusCodes : GetServerError(code)
    \/ \E code \in StatusCodes, body \in Bodies : GetOtherStatus(code, body)
    \/ \E code \in StatusCodes, value \in JsonBodies : GetParsed(code, value)
    \/ \E code \in StatusCodes : GetUnparsable(code)
    \/ GetFallThrough

\* A request ends (REQUEST_TIMEOUT) and every sleep is finite, so the
\* thread running safe_get keeps taking steps.
InitGet == GetStart /\ RunIdle /\ ListIdle

SpecGet == InitGet /\ [][NextGet]_vars /\ WF_vars(NextGet)

(***************************************************************************)
(* merge_list_by_key applied to one incoming item, then to it again        *)
(***************************************************************************)
MaxListLen == 2

EntryPool ==
    { S("p"),
      D([name |-> S("q")]),
      D([id |-> S(""), name |-> S("z")]),
      D([id |-> S("v1"), name |-> S(""), m3u |-> S("old.m3u8")]),
      D([id |-> S("v1"), name |-> S("Lecture 1"), m3u |-> S("new.m3u8")]),
      D([id |-> N(1), info |-> S("x")]),
      D([id |-> S("1"), info |-> D([a |-> S("b")]), tags |-> L(<<S("t")>>)]) }

RECURSIVE SeqsUpTo(_, _)
SeqsUpTo(set, n) ==
    IF n = 0 THEN {<<>>}
    ELSE LET shorter == SeqsUpTo(set, n - 1)
         IN shorter \cup {Append(q, e) : q \in shorter, e \in set}

\* The lists merged into, and a value that is not a list.
ExistingPool == {L(q) : q \in SeqsUpTo(EntryPool, MaxListLen)} \cup {Null}

ListStart ==
    /\ existing_list \in ExistingPool
    /\ incoming \in EntryPool
    /\ list_key \in {"id", "name"}
    /\ once = Null
    /\ twice = Null
    /\ lpc = "start"

ApplyOnce ==
    /\ lpc = "start"
    /\ once' = merge_list_by_key(existing_list, L(<<incoming>>), list_key)
    /\ lpc' = "once"
    /\ UNCHANGED <<existing_list, incoming, list_key, twice, runVars, getVars>>

ApplyTwice ==
    /\ lpc = "once"
    /\ twice' = merge_list_by_key(once, L(<<incoming>>), list_key)
    /\ lpc' = "twice"
    /\ UNCHANGED <<existing_list, incoming, list_key, once, runVars, getVars>>

NextList == ApplyOnce \/ ApplyTwice

InitList == ListStart /\ RunIdle /\ GetIdle

SpecList == InitList /\ [][NextList]_vars

(***************************************************************************)
(* Properties                                                              *)
(***************************************************************************)
Courses == {master_json[i] : i \in 1..Len(master_json)}

ListOf(x, k) == IF IsList(Get(x, k)) THEN Get(x, k).q ELSE <<>>

Elems(q) == {q[i] : i \in 1..Len(q)}

\* The lesson entries of a stored course.
LessonsOf(c) == {l \in Elems(ListOf(c, "lessons")) : IsDict(l)}

\* old's non-blank scalar fields hold the same value in new, at every depth
\* at which new still has the container old had; lesson_count is derived
\* and left out.  List entries are followed by position (lists only grow).
RECURSIVE FieldsKept(_, _)
FieldsKept(old, new) ==
    IF IsDict(old) THEN
        IsDict(new) =>
            \A k \in DOMAIN old.d \ {"lesson_count"} :
                IF IsScalar(old.d[k])
                THEN is_blank(old.d[k]) \/ (k \in DOMAIN new.d /\ new.d[k] = old.d[k])
                ELSE k \in DOMAIN new.d => FieldsKept(old.d[k], new.d[k])
    ELSE IF IsList(old) THEN
        IsList(new) =>
            \A i \in 1..Min(Len(old.q), Len(new.q)) : FieldsKept(old.q[i], new.q[i])
    ELSE TRUE

\* C1: a merge leaves every non-blank scalar field of every stored course
\* record as it was (lesson_count aside), whatever the incoming record
\* carries under that key.
C1_FillOnly ==
    [][\A i \in 1..Len(master_json) :
          i <= Len(master_json') => FieldsKept(master_json[i], master_json'[i])]_vars

\* Every key of old is a key of new and every list member of old is still
\* in the list, at every depth.
RECURSIVE NothingRemoved(_, _)
NothingRemoved(old, new) ==
    IF IsDict(old) THEN
        /\ IsDict(new)
        /\ \A k \in DOMAIN old.d :
              k \in DOMAIN new.d /\ NothingRemoved(old.d[k], new.d[k])
    ELSE IF IsList(old) THEN
        /\ IsList(new)
        /\ Len(new.q) >= Len(old.q)
        /\ \A i \in 1..Len(old.q) :
              IF IsScalar(old.q[i]) THEN InList(old.q[i], new.q)
              ELSE NothingRemoved(old.q[i], new.q[i])
    ELSE TRUE

\* C2: a merge removes no key and no list member of a stored course record,
\* also when the incoming record holds a value of another shape.
C2_NoDeletion ==
    [][\A i \in 1..Len(master_json) :
          /\ i <= Len(master_json')
          /\ NothingRemoved(master_json[i], master_json'[i])]_vars

\* C3: every course record of the master collection has lesson_count equal
\* to the number of videos of its lessons, from its first upsert on.
C3_CourseCount ==
    \A c \in Courses :
        Get(c, "lesson_count") = N(SumVideos(ListOf(c, "lessons")))

\* C4: every lesson of every stored course has lesson_count equal to the
\* length of its videos list.
C4_LessonCount ==
    \A c \in Courses : \A l \in LessonsOf(c) :
        /\ IsList(Get(l, "videos"))
        /\ Get(l, "lesson_count") = N(Len(Get(l, "videos").q))

\* A lesson fetched with one video was matched by a later fetch that
\* brought a second one: its videos list grew under the merge.
C4_Witness ==
    \E c \in Courses : \E l \in LessonsOf(c) :
        /\ Len(ListOf(l, "videos")) = 2
        /\ Get(ListOf(l, "videos")[1], "m3u") = S("old.m3u8")
        /\ Get(ListOf(l, "videos")[2], "id") = S("v2")
        /\ Get(l, "lesson_count") = N(2)

\* An outcome safe_get retries: a transport failure or HTTP 500/502/503/504.
IsRetryable(o) ==
    o.kind = "neterr" \/ (o.kind = "status" /\ o.code \in {500, 502, 503, 504})

C5_Bound ==
    /\ Len(outcomes) <= MAX_RETRIES
    /\ (/\ gpc = "returned"
        /\ outcomes # <<>>
        /\ \A k \in 1..Len(outcomes) : IsRetryable(outcomes[k]))
       => (Len(outcomes) = MAX_RETRIES /\ get_result = EmptyList)

\* C5: safe_get never makes more than MAX_RETRIES attempts; a call whose
\* attempts all end in a retryable outcome makes exactly MAX_RETRIES of
\* them and returns []; and every call returns.
C5_RetryBound == [](C5_Bound) /\ <>(gpc = "returned")

\* Three attempts, each retryable, then [].
C5_Witness ==
    /\ gpc = "returned"
    /\ MAX_RETRIES = 3
    /\ Len(outcomes) = 3
    /\ \A k \in 1..3 : IsRetryable(outcomes[k])
    /\ outcomes[3].code = 503
    /\ get_result = EmptyList

\* A status outside 2xx that is not one of 500/502/503/504.
IsOtherStatus(o) ==
    /\ o.kind = "status"
    /\ o.code < 200 \/ o.code > 299
    /\ o.code \notin {500, 502, 503, 504}

C7_EmptyOrParsed ==
    gpc = "returned" =>
        \/ get_result \in {EmptyList, EmptyDict}
        \/ /\ outcomes # <<>>
           /\ outcomes[Len(outcomes)].kind = "parsed"
           /\ get_result \in JsonBodies

\* C8: merging a stored course record into itself changes nothing.
C8_Idempotent ==
    \A c \in Courses : merge_course(c, c) = c

\* C9: merging the same incoming item a second time changes nothing.
C9_KeyedIdempotent ==
    lpc = "twice" => twice = once

\* An object with a non-blank key met an entry with that key and filled it.
C9_Witness ==
    /\ lpc = "twice"
    /\ IsDict(incoming)
    /\ ~BlankId(Get(incoming, list_key))
    /\ IsList(existing_list)
    /\ Len(once.q) = Len(existing_list.q)
    /\ once # existing_list

\* The identity field of an announcement: the first of id, notice_id, _id,
\* update_id, uid that holds a non-blank value, with that value.
IdentityOf(item) ==
    LET found == {i \in 1..Len(IdentityFields) :
                     ~is_blank(Get(item, IdentityFields[i]))}
        first == CHOOSE i \in found : \A j \in found : i <= j
    IN IF IsDict(item) /\ found # {}
       THEN <<IdentityFields[first], Get(item, IdentityFields[first])>>
       ELSE <<>>

\* C10: the announcements of a stored course hold at most one entry per
\* identity, however the announcements arrived.
C10_OneEntryPerIdentity ==
    \A c \in Courses :
        LET anns == ListOf(c, "announcements")
        IN \A i, j \in 1..Len(anns) :
              (i # j /\ IsDict(anns[i]) /\ IsDict(anns[j]) /\ IdentityOf(anns[i]) # <<>>)
                  => IdentityOf(anns[i]) # IdentityOf(anns[j])

\* The course_id values of the master collection are pairwise distinct.
UniqueCourseIds(master) ==
    \A i, j \in 1..Len(master) :
        i # j => Get(master[i], "course_id") # Get(master[j], "course_id")

\* Every record of the master collection is still there, at its place and
\* under its course_id, after the step.
RecordsKept ==
    \A i \in 1..Len(master_json) :
        /\ i <= Len(master_json')
        /\ Get(master_json'[i], "course_id") = Get(master_json[i], "course_id")

\* C11: the master collection never holds two records of one course_id,
\* whatever course_ids the runs upsert and however often, and no step
\* removes a record from it.
C11_CourseIdUnique ==
    [](UniqueCourseIds(master_json) /\ (IsList(file) => UniqueCourseIds(file.q)))
    /\ [][RecordsKept]_vars

\* A second run has upserted the same course_id twice into a collection of
\* two courses.
C11_Witness ==
    /\ runs = 2
    /\ pc = "merge"
    /\ pos = 3
    /\ filtered_courses = <<Course1, Course1>>
    /\ Len(master_json) = 2

\* No two object entries of q carry the same non-blank value under key
\* (compared as the index of merge_list_by_key compares them, by str).
KeysDistinct(q, key) ==
    \A i, j \in 1..Len(q) :
        (/\ i # j
         /\ IsDict(q[i]) /\ IsDict(q[j])
         /\ ~BlankId(Get(q[i], key)) /\ ~BlankId(Get(q[j], key)))
            => str(Get(q[i], key)) # str(Get(q[j], key))

FingerprintsDistinct(q) ==
    \A i, j \in 1..Len(q) : i # j => fingerprint(q[i]) # fingerprint(q[j])

\* C12: in every stored course record the classroom and live_classes
\* entries have distinct ids, the lessons distinct lesson_ids, the videos
\* of each lesson distinct ids and the announcements distinct fingerprints,
\* also for a record stored by its first upsert.
C12_IdentityUnique ==
    \A c \in Courses :
        /\ KeysDistinct(ListOf(c, "classroom"), "id")
        /\ KeysDistinct(ListOf(c, "live_classes"), "id")
        /\ KeysDistinct(ListOf(c, "lessons"), "lesson_id")
        /\ \A l \in LessonsOf(c) : KeysDistinct(ListOf(l, "videos"), "id")
        /\ FingerprintsDistinct(ListOf(c, "announcements"))

\* The position of the record upsert_course merges into, 0 when it appends.
HitIndex(master, course_id) ==
    LET hits == {i \in 1..Len(master) : Get(master[i], "course_id") = course_id}
    IN IF hits = {} THEN 0 ELSE CHOOSE h \in hits : \A j \in hits : h <= j

\* The merge loop is about to upsert results[pos] onto a record it finds.
UpsertOntoExisting ==
    /\ pc = "merge"
    /\ pos <= Len(results)
    /\ Truthy(Get(results[pos], "course_id"))
    /\ HitIndex(master_json, Get(results[pos], "course_id")) # 0

\* The record of a poll all of whose sub-fetches came back empty.
TotalFailure(r) ==
    /\ Get(r, "classroom") = EmptyList
    /\ Get(r, "lessons") = EmptyList
    /\ Get(r, "live_classes") = EmptyList
    /\ Get(r, "announcements") = EmptyList

NestedLists == {"classroom", "lessons", "live_classes", "announcements"}

\* new has the four lists of old and every non-blank scalar field of old,
\* except those named in derived, exactly as old has them.
SameButFor(old, new, derived) ==
    /\ \A k \in NestedLists : Get(new, k) = Get(old, k)
    /\ \A k \in DOMAIN old.d \ derived :
          (IsScalar(old.d[k]) /\ ~is_blank(old.d[k]))
              => (k \in DOMAIN new.d /\ new.d[k] = old.d[k])

\* C13: upserting the record of a total failure onto the stored record of
\* its course leaves that record's classroom, lessons, live_classes and
\* announcements and every non-blank scalar field of it as they were.
C13_NoRegression ==
    [][(UpsertOntoExisting /\ TotalFailure(results[pos])) =>
          LET h == HitIndex(master_json, Get(results[pos], "course_id"))
          IN SameButFor(master_json[h], master_json'[h], {})]_vars

\* What a run did to the master collection: one load, then upserts, then
\* at most one save, which is the last entry.
IoInOrder ==
    io # <<>> =>
        /\ io[1] = "load"
        /\ \A k \in 2..Len(io) :
              io[k] = "upsert" \/ (io[k] = "save" /\ k = Len(io))

\* A step that changes the master collection is the load that starts a run
\* or one upsert of the merge loop, taken when no task is pending or running.
MasterWrittenInTurn ==
    (master_json' # master_json) =>
        \/ (pc = "idle" /\ pc' = "fetch" /\ io' = <<"load">>)
        \/ /\ pc = "merge"
           /\ \A i \in 1..Len(futures) : futures[i] \in {"done", "failed"}
           /\ pos' = pos + 1
           /\ io' = Append(io, "upsert")

\* A step that changes the file is the save that follows the last upsert.
FileWrittenAtEnd ==
    (file' # file) =>
        (pc = "merge" /\ pos > Len(results) /\ io' = Append(io, "save"))

\* C14: the master collection is written by the load that starts a run and
\* by the merge loop, one upsert per step and only once no task of the pool
\* is pending or running; while the pool runs it is what was loaded; the
\* file is written by the save that follows the last upsert.
C14_MergesSequential ==
    /\ [](IoInOrder)
    /\ [](pc = "fetch" => (io = <<"load">> /\ master_json = load_master_json(file)))
    /\ [][MasterWrittenInTurn /\ FileWrittenAtEnd]_vars

\* Two tasks ran at once and completed in the other order; the merge loop
\* has upserted the first collected record and not yet the second.
C14_Witness ==
    /\ pc = "merge"
    /\ THREADS = 2
    /\ Len(results) = 2
    /\ Get(results[1], "ranking") = N(2)
    /\ pos = 2
    /\ io = <<"load", "upsert">>

NoDuplicates(q) == \A i, j \in 1..Len(q) : i # j => q[i] # q[j]

\* The notes of every incoming lesson that matches a lesson of old by
\* lesson_id are all among the notes of that lesson in new, none twice.
NotesMerged(old, incoming_course, new) ==
    LET idx == KeyIndex(ListOf(old, "lessons"), "lesson_id")
    IN \A lesson \in LessonsOf(incoming_course) :
          (/\ ~BlankId(Get(lesson, "lesson_id"))
           /\ str(Get(lesson, "lesson_id")) \in DOMAIN idx)
             => LET target == ListOf(new, "lessons")[idx[str(Get(lesson, "lesson_id"))]]
                IN /\ \A n \in Elems(ListOf(lesson, "notes")) :
                         InList(n, ListOf(target, "notes"))
                   /\ NoDuplicates(ListOf(target, "notes"))

\* C15: when an upsert merges an incoming lesson into the stored lesson of
\* the same lesson_id, every note of the incoming lesson is afterwards a
\* note of the stored lesson, and no note is there twice.
C15_NotesReconciled ==
    [][UpsertOntoExisting =>
          LET h == HitIndex(master_json, Get(results[pos], "course_id"))
          IN NotesMerged(master_json[h], results[pos], master_json'[h])]_vars

\* The attempt received this status with a body that parses as JSON.
ParsableWith(o, codes) ==
    /\ o.kind \in {"status", "parsed"}
    /\ o.code \in codes
    /\ o.body \in JsonBodies

\* The attempt was the last one and safe_get returned its parsed body; the
\* attempts before it all ended in retryable outcomes.
ReturnedParsed(k) ==
    /\ k = Len(outcomes)
    /\ gpc = "returned"
    /\ get_result = outcomes[k].body
    /\ \A j \in 1..(k - 1) : IsRetryable(outcomes[j])

\* C16: an attempt that receives a status from 200 to 299 with a body that
\* parses makes safe_get return the parsed value, that of the first such
\* attempt.
C16_Any2xx ==
    \A k \in 1..Len(outcomes) :
        ParsableWith(outcomes[k], 200..299) => ReturnedParsed(k)

\* C16 as amended: status 200 with a body that parses makes safe_get return
\* the parsed value, that of the first such attempt; any other status from
\* 201 to 299 ends the call with [], whatever its body.
C16_Status200 ==
    \A k \in 1..Len(outcomes) :
        /\ ParsableWith(outcomes[k], {200}) => ReturnedParsed(k)
        /\ (outcomes[k].kind # "neterr" /\ outcomes[k].code \in 201..299) =>
              (k = Len(outcomes) /\ gpc = "returned" /\ get_result = EmptyList)

\* Two retryable outcomes, then status 200 with a non-empty JSON body on the
\* last allowed attempt.
C16_Witness ==
    /\ MAX_RETRIES = 3
    /\ Len(outcomes) = 3
    /\ outcomes[1].kind = "neterr"
    /\ outcomes[2].code = 502
    /\ outcomes[3].kind = "parsed"
    /\ get_result = D([video_url |-> S("u.m3u8")])
    /\ gpc = "returned"

\* C17: after an upsert onto the stored record of its course, the stored
\* ranking is the ranking of the incoming record.
C17_RankingOverwritten ==
    [][UpsertOntoExisting =>
          LET h == HitIndex(master_json, Get(results[pos], "course_id"))
          IN Get(master_json'[h], "ranking") = Get(results[pos], "ranking")]_vars

\* C17 as amended: after an upsert onto the stored record of its course, a
\* stored ranking that was non-blank is what it was, whatever the ranking
\* of the incoming record.
C17_RankingFillOnly ==
    [][UpsertOntoExisting =>
          LET h == HitIndex(master_json, Get(results[pos], "course_id"))
          IN ~is_blank(Get(master_json[h], "ranking")) =>
                Get(master_json'[h], "ranking") = Get(master_json[h], "ranking")]_vars

\* The record stored with ranking 4 has been upserted with the record of
\* the task ranked 1, and still has ranking 4.
C17_Witness ==
    /\ pc = "merge"
    /\ pos = 2
    /\ Get(results[1], "ranking") = N(1)
    /\ Get(results[1], "course_id") = S("1")
    /\ Len(master_json) = 1
    /\ Get(master_json[1], "course_id") = S("1")
    /\ Get(master_json[1], "ranking") = N(4)

\* Every collected record with a non-blank course_id has been upserted: one
\* upsert per such record, and a record of its course_id is stored.
AllUpserted ==
    /\ pos = Len(results) + 1
    /\ Cardinality({k \in 1..Len(io) : io[k] = "upsert"})
         = Cardinality({k \in 1..Len(results) : Truthy(Get(results[k], "course_id"))})
    /\ \A k \in 1..Len(results) :
          Truthy(Get(results[k], "course_id")) =>
              HitIndex(master_json, Get(results[k], "course_id")) # 0

\* The run has saved once, as the last thing it did.
SavedOnce ==
    /\ io # <<>>
    /\ io[Len(io)] = "save"
    /\ \A k \in 1..(Len(io) - 1) : io[k] # "save"

\* Every task has finished, the records of those that did not raise are
\* collected and upserted, and the file holds the master collection.
RunPersisted ==
    /\ pc = "idle"
    /\ \A i \in 1..Len(futures) : futures[i] \in {"done", "failed"}
    /\ Len(results) = Cardinality({i \in 1..Len(futures) : futures[i] = "done"})
    /\ AllUpserted
    /\ SavedOnce
    /\ file = L(master_json)

\* C18: a run that has matched courses and started its pool always gets to
\* the end: every task finishes, raising or not, every collected record with
\* a course_id is upserted and the master collection is saved, once, after
\* the last upsert.
C18_RunPersists ==
    /\ (pc = "fetch") ~> RunPersisted
    /\ []((pc = "idle" /\ runs > 0) => RunPersisted)

\* A run of two tasks of which one raised: the other's record is stored
\* and saved.
C18_Witness ==
    /\ RunPersisted
    /\ Len(futures) = 2
    /\ futures[2] = "failed"
    /\ Len(results) = 1
    /\ io = <<"load", "upsert", "save">>

\* The field is absent, null or the empty string.
BlankScalar(x, k) == k \notin DOMAIN x.d \/ x.d[k] \in {Null, S("")}

\* The incoming object has a non-blank key that, as a string, is the key of
\* an entry of the existing list.
KeyMatches ==
    /\ IsList(existing_list)
    /\ IsDict(incoming)
    /\ ~BlankId(Get(incoming, list_key))
    /\ str(Get(incoming, list_key)) \in DOMAIN KeyIndex(existing_list.q, list_key)

\* The entry the incoming object is merged into.
MatchedAt == KeyIndex(existing_list.q, list_key)[str(Get(incoming, list_key))]

\* new is old with its blank scalar fields filled from the non-blank
\* scalars of item, and its non-blank scalar fields as they were.
FilledFrom(old, item, new) ==
    /\ IsDict(new)
    /\ \A k \in DOMAIN item.d :
          (BlankScalar(old, k) /\ IsScalar(item.d[k]) /\ ~is_blank(item.d[k]))
              => Get(new, k) = item.d[k]
    /\ \A k \in DOMAIN old.d :
          (IsScalar(old.d[k]) /\ ~BlankScalar(old, k))
              => (k \in DOMAIN new.d /\ new.d[k] = old.d[k])

\* C19: merging an incoming object whose key matches an existing entry
\* leaves the list as long as it was, fills the blank scalar fields of that
\* entry from the incoming object and keeps its non-blank scalar fields.
C19_KeyedFill ==
    (lpc \in {"once", "twice"} /\ KeyMatches) =>
        /\ Len(once.q) = Len(existing_list.q)
        /\ FilledFrom(existing_list.q[MatchedAt], incoming, once.q[MatchedAt])

\* The collected records in the order of their tasks' submission (their
\* ranking), whatever the order they completed in.
RECURSIVE BySubmission(_)
BySubmission(rs) ==
    IF rs = <<>> THEN <<>>
    ELSE LET first == CHOOSE i \in 1..Len(rs) :
                          \A j \in 1..Len(rs) :
                              Get(rs[i], "ranking").n <= Get(rs[j], "ranking").n
         IN <<rs[first]>> \o
            BySubmission([k \in 1..(Len(rs) - 1) |-> IF k < first THEN rs[k] ELSE rs[k + 1]])

\* The loop of lines 410-413 run over rs from position i.
RECURSIVE UpsertAll(_, _, _)
UpsertAll(master, rs, i) ==
    IF i > Len(rs) THEN master
    ELSE LET cid == Get(rs[i], "course_id")
         IN UpsertAll(IF Truthy(cid) THEN upsert_course(master, cid, rs[i]) ELSE master,
                      rs, i + 1)

\* The matched courses of the run have pairwise distinct non-blank ids.
DistinctIds ==
    /\ \A i \in 1..Len(filtered_courses) :
          ~BlankId(Get(filtered_courses[i], "id"))
    /\ \A i, j \in 1..Len(filtered_courses) :
          i # j => str(Get(filtered_courses[i], "id")) # str(Get(filtered_courses[j], "id"))

\* The merge loop of the run is over (the file is still as it was loaded).
MergeLoopOver == pc = "merge" /\ pos > Len(results)

\* C20: when the matched courses have distinct course_ids, the master
\* collection after the merge loop holds the records it would hold had the
\* tasks completed in submission order: the same record under every
\* course_id, the records loaded from the file at their places, and only
\* the places of the newly appended ones free to differ.
C20_OrderIndependent ==
    (MergeLoopOver /\ DistinctIds) =>
        LET loaded == load_master_json(file)
            canon  == UpsertAll(loaded, BySubmission(results), 1)
        IN /\ Len(master_json) = Len(canon)
           /\ Elems(master_json) = Elems(canon)
           /\ \A i \in 1..Len(loaded) : master_json[i] = canon[i]

\* Two tasks of distinct courses completed in the other order, one record
\* merged into the stored course and one appended.
C20_Witness ==
    /\ MergeLoopOver
    /\ DistinctIds
    /\ Len(results) = 2
    /\ Get(results[1], "ranking") = N(2)
    /\ Len(load_master_json(file)) = 1
    /\ Len(master_json) = 2
    /\ master_json[1] # load_master_json(file)[1]

=============================================================================
